---- MODULE Spec2Model ----
\* A model of bin/bootstrap.js: the start-up chain of the CasperJS launcher
\* (runtime check, root path discovery, version file, require patching,
\* command line planning, script injection) and the patched require.
EXTENDS Integers, Sequences, FiniteSets, TLC

VARIABLES
    files,                \* the absolute paths that are regular files
    exitHalts,            \* does the host stop running JS inside phantom.exit()?
    pc,                   \* position in the bootstrap function
    versionOk,            \* "unchecked" | "ok" | "bad": result of the version check
    rootOk,               \* "unchecked" | "ok" | "undefined" | "threw"
    exits,                \* the codes phantom.exit was called with, in order
    stderr,               \* console.error lines, as <<kind, path>>
    stdout,               \* console.log lines, as <<kind>>
    thrown,               \* the uncaught exception that ended the bootstrap
    casperPath,           \* phantom.casperPath
    loaders,              \* the require functions that exist
    globalRequire,        \* global.require, an index of loaders
    phantomArgs,          \* phantom.args as cli.parse reads them
    casperArgs,           \* phantom.casperArgs
    casperScript,         \* phantom.casperScript
    casperScriptBaseDir,  \* phantom.casperScriptBaseDir
    casperTest,           \* phantom.casperTest
    casperSelfTest,       \* phantom.casperSelfTest
    casperLoaded,         \* phantom.casperLoaded
    planOutcome,          \* how initCasperCli ended: "none" when it has not run
    planChecked,          \* the paths initCasperCli asked fs.isFile about
    injected,             \* the paths handed to phantom.injectJs
    lastRequire,          \* the latest call of the patched require
    lastPatch             \* the latest call of patchRequire

vars == <<files, exitHalts, pc, versionOk, rootOk, exits, stderr, stdout, thrown,
          casperPath, loaders, globalRequire, phantomArgs, casperArgs,
          casperScript, casperScriptBaseDir, casperTest, casperSelfTest,
          casperLoaded, planOutcome, planChecked, injected,
          lastRequire, lastPatch>>

-----------------------------------------------------------------------------
\* Strings are sequences of atoms; an atom other than "/" and "\\" holds no
\* separator, and no atom is a concatenation of others.

MaxArgs == 2
MaxLoaders == 3

Undefined == <<"undefined!">>
Sep == "/"
Root == <<"/", "c">>
Cwd == <<"/", "w">>
Test == <<"test">>
SelfTest == <<"selftest">>
BareName == <<"a">>
RootLevel == <<"/", "a">>
Nested == <<"d", "/", "a">>
ModuleNames == {BareName}

Falsy(v) == v = Undefined \/ v = <<>>

Str(v) == IF v = Undefined THEN <<>> ELSE v

RECURSIVE pathJoin(_)
pathJoin(segs) ==
    IF Len(segs) = 0 THEN <<>>
    ELSE IF Len(segs) = 1 THEN Str(segs[1])
    ELSE Str(segs[1]) \o <<Sep>> \o pathJoin(Tail(segs))

absolute(path) ==
    IF Falsy(path) \/ path = <<".">> THEN Cwd
    ELSE IF path[1] = Sep THEN path
    ELSE Cwd \o <<Sep>> \o path

isFile(path) == path # Undefined /\ absolute(path) \in files

exists(path) == isFile(path)

Slashed(path) == [i \in 1..Len(path) |-> IF path[i] = "\\" THEN Sep ELSE path[i]]

LastSep(path) ==
    LET at == {i \in 1..Len(path) : path[i] = Sep}
    IN  IF at = {} THEN 0 ELSE CHOOSE i \in at : \A j \in at : j <= i

dirname(path) ==
    IF Falsy(path) THEN Undefined
    ELSE LET p == Slashed(path)
             k == LastSep(p)
         IN  IF k = 0 THEN p ELSE SubSeq(p, 1, k - 1)

CandidateFiles ==
    { pathJoin(<<Root, <<"package.json">>>>),
      pathJoin(<<Root, <<"modules">>, BareName \o <<".js">>>>),
      pathJoin(<<Root, <<"tests">>, <<"run", ".js">>>>),
      pathJoin(<<Cwd, BareName>>),
      pathJoin(<<Cwd, BareName \o <<".js">>>>) }

-----------------------------------------------------------------------------
\* phantom.exit and the two ways the bootstrap ends a run

SupportedMajor == 1
MinMinor == 8
MinPatch == 1

Versions == [major : {1, 2}, minor : {7, 8, 9}, patch : {0, 1}]

versionCheck(version) ==
    IF version.major # SupportedMajor THEN "v1.x"
    ELSE IF version.minor < MinMinor THEN "v1.8"
    ELSE IF version.minor = MinMinor /\ version.patch < MinPatch THEN "v1.8.1"
    ELSE "ok"

\* Where control goes after phantom.exit(): nowhere when the host halts inside
\* the call, else to the statement after the return that follows the call (the
\* bootstrap writes `return __die(...)` throughout). Both hosts are modelled.
AfterExit(next) == IF exitHalts THEN "exited" ELSE next

Die(kind, path) == [err |-> <<<<kind, path>>>>, out |-> <<>>, exit |-> <<1>>]

\* printHelp reads <root>/bin/usage.txt, a file of the installation that is
\* taken to be readable
Terminate(kind) == [err |-> <<>>, out |-> <<<<kind>>>>, exit |-> <<0>>]

NoOutput == [err |-> <<>>, out |-> <<>>, exit |-> <<>>]

-----------------------------------------------------------------------------
\* patchRequire and the patched require

Loader(isPatched, inner, c, e, s) ==
    [patched |-> isPatched, wraps |-> inner, cache |-> c, extensions |-> e, stubs |-> s]

Primitive(id) == Loader(FALSE, 0, id, id, id)

patchRequireUnguarded(ls, r) ==
    [loaders |-> Append(ls, Loader(TRUE, r, ls[r].cache, ls[r].extensions, ls[r].stubs)),
     result |-> Len(ls) + 1]

patchRequire(ls, r) ==
    IF ls[r].patched THEN [loaders |-> ls, result |-> r]
    ELSE [loaders |-> Append(ls, Loader(TRUE, r, ls[r].cache, ls[r].extensions, ls[r].stubs)),
          result |-> Len(ls) + 1]

casperBuiltinPath(path) ==
    LET absPath == pathJoin(<<casperPath, <<"modules">>, path \o <<".js">>>>)
    IN  IF isFile(absPath) THEN absPath ELSE Undefined

localModulePath(path) ==
    LET baseDir == IF Falsy(casperScriptBaseDir) THEN Cwd ELSE casperScriptBaseDir
        paths == << absolute(pathJoin(<<baseDir, path>>)),
                    absolute(pathJoin(<<baseDir, path \o <<".js">>>>)) >>
        found == SelectSeq(paths, isFile)
    IN  IF found = <<>> THEN Undefined ELSE found[Len(found)]

Call(name, tier, arg, threw, outcome, error) ==
    [name |-> name, tier |-> tier, arg |-> arg, threw |-> threw,
     outcome |-> outcome, error |-> error]

NoCall == Call(Undefined, "none", Undefined, FALSE, "none", Undefined)

\* a path handed to the primitive loader outside any try block
direct(path, tier, arg, primThrows) ==
    Call(path, tier, arg, primThrows, IF primThrows THEN "primitiveError" ELSE "exports", Undefined)

fallbackSwallows(path, primThrows) ==
    Call(path, "primitive", path, primThrows, IF primThrows THEN "undefined" ELSE "exports", Undefined)

\* try { return require(path) } catch (e) { throw new CasperError(...) }
fallback(path, primThrows) ==
    IF primThrows THEN Call(path, "primitive", path, TRUE, "CasperError", path)
    ELSE Call(path, "primitive", path, FALSE, "exports", Undefined)

patchedRequireLocalFirst(path, primThrows) ==
    IF ~Falsy(localModulePath(path))
    THEN direct(path, "local", localModulePath(path), primThrows)
    ELSE IF ~Falsy(casperBuiltinPath(path))
    THEN direct(path, "builtin", casperBuiltinPath(path), primThrows)
    ELSE fallback(path, primThrows)

patchedRequire(path, primThrows) ==
    IF ~Falsy(casperBuiltinPath(path))
    THEN direct(path, "builtin", casperBuiltinPath(path), primThrows)
    ELSE IF ~Falsy(localModulePath(path))
    THEN direct(path, "local", localModulePath(path), primThrows)
    ELSE fallback(path, primThrows)

-----------------------------------------------------------------------------
\* modules/cli.js: the parsed arguments, get and drop. parse yields the
\* options and the positionals; get(i) is the i-th positional (from 0) or
\* undefined; drop(token) removes every positional equal to the token and
\* keeps the order of the others.

Options(v, h, c) == [version |-> v, help |-> h, cli |-> c, includes |-> Undefined]

Tokens == {Test, SelfTest, BareName, RootLevel, Nested}

RECURSIVE SeqsUpTo(_, _)
SeqsUpTo(S, n) ==
    IF n = 0 THEN {<<>>}
    ELSE LET shorter == SeqsUpTo(S, n - 1)
         IN  shorter \cup {Append(s, x) : s \in shorter, x \in S}

ParsedArgs ==
    { [options |-> Options(v, h, TRUE), args |-> a] :
          v \in BOOLEAN, h \in BOOLEAN, a \in SeqsUpTo(Tokens, MaxArgs) }
    \cup { [options |-> Options(FALSE, FALSE, FALSE), args |-> <<BareName>>] }

get(ca, i) == IF i + 1 <= Len(ca.args) THEN ca.args[i + 1] ELSE Undefined

drop(ca, what) == [ca EXCEPT !.args = SelectSeq(ca.args, LAMBDA a : a # what)]

-----------------------------------------------------------------------------
\* initCasperCli

baseTestsPath == pathJoin(<<casperPath, <<"tests">>>>)

runScript == absolute(pathJoin(<<baseTestsPath, <<"run", ".js">>>>))

cliRowVersionLate(ca) ==
    IF get(ca, 0) = Test THEN "test"
    ELSE IF get(ca, 0) = SelfTest THEN "selftest"
    ELSE IF ca.options.version THEN "version"
    ELSE IF Len(ca.args) = 0 \/ ca.options.help THEN "help"
    ELSE "direct"

cliRow(ca) ==
    IF ca.options.version THEN "version"
    ELSE IF get(ca, 0) = Test THEN "test"
    ELSE IF get(ca, 0) = SelfTest THEN "selftest"
    ELSE IF Len(ca.args) = 0 \/ ca.options.help THEN "help"
    ELSE "direct"

Phantom(ca, script, baseDir, test, selfTest) ==
    [ca |-> ca, script |-> script, baseDir |-> baseDir, test |-> test, selfTest |-> selfTest]

testRow(ca) ==
    LET dropped == drop(ca, Test)
    IN  Phantom(dropped, runScript, dirname(get(dropped, 0)), TRUE, FALSE)

selftestNeedsDefaultWhenEmpty(ca) == Len(ca.args) < 1

selftestNeedsDefault(ca) == Len(ca.args) <= 1

selftestRow(ca) ==
    LET included == [ca EXCEPT !.options.includes = pathJoin(<<baseTestsPath, <<"selftest", ".js">>>>)]
        pushed == IF selftestNeedsDefault(included)
                  THEN [included EXCEPT !.args = Append(@, pathJoin(<<baseTestsPath, <<"suites">>>>))]
                  ELSE included
        dropped == drop(pushed, SelfTest)
        anchor == IF Falsy(get(dropped, 1)) THEN dirname(runScript) ELSE get(dropped, 1)
    IN  Phantom(dropped, runScript, dirname(anchor), TRUE, TRUE)

directRow(ca) == Phantom(ca, Undefined, Undefined, FALSE, FALSE)

Plan(outcome, row, ph, io, checked) ==
    [outcome |-> outcome, row |-> row, ca |-> ph.ca, script |-> ph.script,
     baseDir |-> ph.baseDir, test |-> ph.test, selfTest |-> ph.selfTest,
     io |-> io, checked |-> checked]

scriptBaseDir(script) ==
    LET scriptDir == dirname(script)
    IN  absolute(IF scriptDir = script THEN <<".">> ELSE scriptDir)

planTail(row, ph) ==
    LET script == IF Falsy(ph.script) THEN get(ph.ca, 0) ELSE ph.script
        chosen == [ph EXCEPT !.script = script]
    IN  IF ~isFile(script)
        THEN Plan("fatal", row, chosen, Die("Unable to open file: ", script), <<script>>)
        ELSE Plan("completed", row,
                  [chosen EXCEPT !.baseDir = IF Falsy(ph.baseDir) THEN scriptBaseDir(script) ELSE @,
                                 !.ca = drop(ph.ca, script)],
                  NoOutput, <<script>>)

initCasperCli(ca) ==
    LET row == cliRow(ca)
    IN  CASE row = "version" -> Plan("terminate", row, directRow(ca), Terminate("version"), <<>>)
          [] row = "help" -> Plan("terminate", row, directRow(ca), Terminate("help"), <<>>)
          [] row = "test" -> planTail(row, testRow(ca))
          [] row = "selftest" -> planTail(row, selftestRow(ca))
          [] OTHER -> planTail(row, directRow(ca))

-----------------------------------------------------------------------------
\* The bootstrap function, statement by statement

Init ==
    /\ files \in SUBSET CandidateFiles
    /\ exitHalts \in BOOLEAN
    /\ pc = "start"
    /\ versionOk = "unchecked"
    /\ rootOk = "unchecked"
    /\ exits = <<>>
    /\ stderr = <<>>
    /\ stdout = <<>>
    /\ thrown = "none"
    /\ casperPath = Undefined
    /\ loaders = <<Primitive(1)>>
    /\ globalRequire = 1
    /\ phantomArgs = Undefined
    /\ casperArgs = Undefined
    /\ casperScript = Undefined
    /\ casperScriptBaseDir = Undefined
    /\ casperTest = FALSE
    /\ casperSelfTest = FALSE
    /\ casperLoaded = FALSE
    /\ planOutcome = "none"
    /\ planChecked = <<>>
    /\ injected = <<>>
    /\ lastRequire = NoCall
    /\ lastPatch = <<0, 0>>

Emit(io) ==
    /\ exits' = exits \o io.exit
    /\ stderr' = stderr \o io.err
    /\ stdout' = stdout \o io.out

VersionCheck ==
    /\ pc = "start"
    /\ \E version \in Versions :
          LET needs == versionCheck(version)
          IN  IF needs = "ok"
              THEN /\ versionOk' = "ok"
                   /\ pc' = "root"
                   /\ Emit(NoOutput)
              ELSE /\ versionOk' = "bad"
                   /\ pc' = AfterExit("root")
                   /\ Emit(Die("CasperJS needs PhantomJS ", <<needs>>))
    /\ UNCHANGED <<files, exitHalts, rootOk, thrown, casperPath, loaders, globalRequire,
                   phantomArgs, casperArgs, casperScript, casperScriptBaseDir, casperTest,
                   casperSelfTest, casperLoaded, planOutcome, planChecked, injected,
                   lastRequire, lastPatch>>

\* the --casper-path argument that names a directory, if any, or an exception
\* out of the file system calls
RootPath ==
    /\ pc = "root"
    /\ \E found \in {Root, Undefined}, throws \in BOOLEAN :
          IF throws
          THEN /\ rootOk' = "threw"
               /\ casperPath' = casperPath
               /\ pc' = AfterExit("returned")
               /\ Emit(Die("Couldn't find nor compute phantom.casperPath", Undefined))
          ELSE /\ rootOk' = IF found = Undefined THEN "undefined" ELSE "ok"
               /\ casperPath' = found
               /\ pc' = "version"
               /\ Emit(NoOutput)
    /\ UNCHANGED <<files, exitHalts, versionOk, thrown, loaders, globalRequire,
                   phantomArgs, casperArgs, casperScript, casperScriptBaseDir, casperTest,
                   casperSelfTest, casperLoaded, planOutcome, planChecked, injected,
                   lastRequire, lastPatch>>

getCasperVersion(path, malformed) ==
    LET pkgFile == absolute(pathJoin(<<path, <<"package.json">>>>))
    IN  IF ~exists(pkgFile) THEN "Cannot find package.json"
        ELSE IF malformed THEN "Invalid package file"
        ELSE "none"

CasperVersion ==
    /\ pc = "version"
    /\ \E malformed \in BOOLEAN :
          /\ thrown' = getCasperVersion(casperPath, malformed)
          /\ pc' = IF thrown' = "none" THEN "patch" ELSE "threw"
    /\ UNCHANGED <<files, exitHalts, versionOk, rootOk, exits, stderr, stdout, casperPath,
                   loaders, globalRequire, phantomArgs, casperArgs, casperScript,
                   casperScriptBaseDir, casperTest, casperSelfTest, casperLoaded,
                   planOutcome, planChecked, injected, lastRequire, lastPatch>>

PatchGlobalRequire ==
    /\ pc = "patch"
    /\ LET patched == patchRequire(loaders, globalRequire)
       IN  /\ loaders' = patched.loaders
           /\ globalRequire' = patched.result
           /\ lastPatch' = <<globalRequire, patched.result>>
    /\ pc' = "parse"
    /\ UNCHANGED <<files, exitHalts, versionOk, rootOk, exits, stderr, stdout, thrown,
                   casperPath, phantomArgs, casperArgs, casperScript, casperScriptBaseDir,
                   casperTest, casperSelfTest, casperLoaded, planOutcome, planChecked,
                   injected, lastRequire>>

ParseArgs ==
    /\ pc = "parse"
    /\ \E parsed \in ParsedArgs :
          /\ phantomArgs' = parsed
          /\ casperArgs' = parsed
          /\ pc' = IF parsed.options.cli THEN "plan" ELSE "load"
    /\ UNCHANGED <<files, exitHalts, versionOk, rootOk, exits, stderr, stdout, thrown,
                   casperPath, loaders, globalRequire, casperScript, casperScriptBaseDir,
                   casperTest, casperSelfTest, casperLoaded, planOutcome, planChecked,
                   injected, lastRequire, lastPatch>>

InitCasperCli ==
    /\ pc = "plan"
    /\ LET plan == initCasperCli(casperArgs)
       IN  /\ casperArgs' = plan.ca
           /\ casperScript' = plan.script
           /\ casperScriptBaseDir' = plan.baseDir
           /\ casperTest' = plan.test
           /\ casperSelfTest' = plan.selfTest
           /\ planOutcome' = plan.outcome
           /\ planChecked' = plan.checked
           /\ Emit(plan.io)
           /\ pc' = IF plan.io.exit = <<>> THEN "load" ELSE AfterExit("load")
    /\ UNCHANGED <<files, exitHalts, versionOk, rootOk, thrown, casperPath, loaders,
                   globalRequire, phantomArgs, casperLoaded, injected, lastRequire,
                   lastPatch>>

\* phantom.casperLoaded = true, then phantom.injectJs of the chosen script
LoadScript ==
    /\ pc = "load"
    /\ casperLoaded' = TRUE
    /\ IF Falsy(casperScript)
       THEN /\ injected' = injected
            /\ pc' = "done"
            /\ Emit(NoOutput)
       ELSE /\ injected' = Append(injected, casperScript)
            /\ \E syntaxOk \in BOOLEAN :
                  IF isFile(casperScript) /\ syntaxOk
                  THEN /\ pc' = "done"
                       /\ Emit(NoOutput)
                  ELSE /\ pc' = AfterExit("returned")
                       /\ Emit(Die("Unable to load script ", casperScript))
    /\ UNCHANGED <<files, exitHalts, versionOk, rootOk, thrown, casperPath, loaders,
                   globalRequire, phantomArgs, casperArgs, casperScript,
                   casperScriptBaseDir, casperTest, casperSelfTest, planOutcome,
                   planChecked, lastRequire, lastPatch>>

-----------------------------------------------------------------------------
\* After the bootstrap: scripts and modules use require and patchRequire

\* JS still runs: the injected script does, and whatever follows the bootstrap
\* does unless phantom.exit() was called, which ends the process once the
\* bootstrap has returned
Running == pc = "done" /\ (exits = <<>> \/ injected # <<>>)

RequireCall ==
    /\ Running
    /\ loaders[globalRequire].patched
    /\ \E path \in ModuleNames, primThrows \in BOOLEAN :
          lastRequire' = patchedRequire(path, primThrows)
    /\ UNCHANGED <<files, exitHalts, pc, versionOk, rootOk, exits, stderr, stdout, thrown,
                   casperPath, loaders, globalRequire, phantomArgs, casperArgs,
                   casperScript, casperScriptBaseDir, casperTest, casperSelfTest,
                   casperLoaded, planOutcome, planChecked, injected, lastPatch>>

\* a module is handed a require of its own by the host
ModuleRequire ==
    /\ Running
    /\ Len(loaders) < MaxLoaders
    /\ loaders' = Append(loaders, Primitive(Len(loaders) + 1))
    /\ UNCHANGED <<files, exitHalts, pc, versionOk, rootOk, exits, stderr, stdout, thrown,
                   casperPath, globalRequire, phantomArgs, casperArgs, casperScript,
                   casperScriptBaseDir, casperTest, casperSelfTest, casperLoaded,
                   planOutcome, planChecked, injected, lastRequire, lastPatch>>

PatchRequireCall ==
    /\ Running
    /\ \E r \in 1..Len(loaders) :
          LET patched == patchRequire(loaders, r)
          IN  /\ Len(patched.loaders) <= MaxLoaders
              /\ loaders' = patched.loaders
              /\ lastPatch' = <<r, patched.result>>
    /\ UNCHANGED <<files, exitHalts, pc, versionOk, rootOk, exits, stderr, stdout, thrown,
                   casperPath, globalRequire, phantomArgs, casperArgs, casperScript,
                   casperScriptBaseDir, casperTest, casperSelfTest, casperLoaded,
                   planOutcome, planChecked, injected, lastRequire>>

Next ==
    \/ VersionCheck
    \/ RootPath
    \/ CasperVersion
    \/ PatchGlobalRequire
    \/ ParseArgs
    \/ InitCasperCli
    \/ LoadScript
    \/ RequireCall
    \/ ModuleRequire
    \/ PatchRequireCall

Spec == Init /\ [][Next]_vars

-----------------------------------------------------------------------------
\* Properties

Last(s) == s[Len(s)]

Has(s, x) == \E i \in 1..Len(s) : s[i] = x

Planned == planOutcome # "none"

\* initCasperCli has run in a start-up whose version check and root path
\* discovery both passed
PlannedCleanly == Planned /\ versionOk = "ok" /\ rootOk = "ok"

FirstPositional == IF Len(phantomArgs.args) = 0 THEN Undefined ELSE phantomArgs.args[1]

Without(s, token) == SelectSeq(s, LAMBDA a : a # token)

RunJs == Root \o <<"/", "tests", "/", "run", ".js">>

SelftestJs == Root \o <<"/", "tests", "/", "selftest", ".js">>

Suites == Root \o <<"/", "tests", "/", "suites">>

BuiltinFile(n) == Root \o <<"/", "modules", "/">> \o n \o <<".js">>

LocalBase == IF casperScriptBaseDir \in {Undefined, <<>>} THEN Cwd ELSE casperScriptBaseDir

LocalPlain(n) == absolute(LocalBase \o <<"/">> \o n)

LocalJs(n) == absolute(LocalBase \o <<"/">> \o n \o <<".js">>)

IsAbsolute(p) == p # Undefined /\ Len(p) > 0 /\ p[1] = "/"

\* C1: the patched require hands the primitive loader the builtin file when
\* it exists, else an existing local candidate, else the raw name.
C1_Precedence ==
    lastRequire.tier # "none" =>
        LET n == lastRequire.name
        IN  IF BuiltinFile(n) \in files
            THEN lastRequire.arg = BuiltinFile(n)
            ELSE IF LocalPlain(n) \in files \/ LocalJs(n) \in files
            THEN lastRequire.arg \in {LocalPlain(n), LocalJs(n)} \cap files
            ELSE lastRequire.arg = n

C1_Witness ==
    /\ lastRequire.tier = "builtin"
    /\ LocalPlain(lastRequire.name) \in files

\* C2: in the local tier the extension-less candidate wins when both files
\* exist, and the .js candidate is loaded when it is the only one.
C2_FirstExistingWins ==
    lastRequire.tier = "local" =>
        LET n == lastRequire.name
        IN  /\ LocalPlain(n) \in files => lastRequire.arg = LocalPlain(n)
            /\ LocalPlain(n) \notin files => lastRequire.arg = LocalJs(n)

\* C3: the resolver is installed and a script is loaded only after the version
\* check and the root path discovery succeeded; when either fails, start-up
\* ends with exit status 1 and no later step runs.
C3_PrerequisiteChain ==
    LET passed == versionOk = "ok" /\ rootOk = "ok"
        failed == versionOk = "bad" \/ rootOk \in {"undefined", "threw"}
    IN  /\ loaders[globalRequire].patched => passed
        /\ injected # <<>> => passed
        /\ failed => /\ pc \notin {"parse", "plan", "load", "done"}
                     /\ casperArgs = Undefined
                     /\ planOutcome = "none"
        /\ failed /\ pc \in {"exited", "returned", "threw"} => Has(exits, 1)

\* C4: a direct script that is not a file ends planning fatally: exit 1, a
\* diagnostic with the path, the path never injected, no resolver install
\* afterwards; a completed plan has an existing script.
C4_MissingScriptIsFatal ==
    /\ ( /\ PlannedCleanly
         /\ ~phantomArgs.options.version
         /\ ~phantomArgs.options.help
         /\ FirstPositional \notin {Undefined, Test, SelfTest}
         /\ absolute(FirstPositional) \notin files )
       => /\ planOutcome = "fatal"
          /\ Has(exits, 1)
          /\ Has(stderr, <<"Unable to open file: ", FirstPositional>>)
          /\ ~Has(injected, FirstPositional)
          /\ pc \notin {"patch", "done"}
    /\ (PlannedCleanly /\ planOutcome = "completed") => absolute(casperScript) \in files

\* C5: the test row sets testMode only, targets <root>/tests/run.js, removes
\* "test" keeping the other positionals in order, and sets the base directory
\* to the directory of the first remaining positional.
C5_TestRow ==
    (PlannedCleanly /\ ~phantomArgs.options.version /\ FirstPositional = Test) =>
        LET rest == Without(phantomArgs.args, Test)
        IN  /\ casperTest /\ ~casperSelfTest
            /\ casperScript = RunJs
            /\ casperArgs.args = rest
            /\ rest # <<>> => casperScriptBaseDir = dirname(rest[1])

\* C6: the selftest row sets both modes, targets <root>/tests/run.js, sets
\* options.includes, removes "selftest", and appends <root>/tests/suites
\* exactly when fewer than two positionals were given.
C6_SelftestRow ==
    (Planned /\ ~phantomArgs.options.version /\ FirstPositional = SelfTest) =>
        /\ casperTest /\ casperSelfTest
        /\ casperScript = RunJs
        /\ casperArgs.options.includes = SelftestJs
        /\ ~Has(casperArgs.args, SelfTest)
        /\ casperArgs.args =
              Without(phantomArgs.args, SelfTest)
                  \o (IF Len(phantomArgs.args) < 2 THEN <<Suites>> ELSE <<>>)

C6_Witness ==
    /\ planOutcome = "completed"
    /\ phantomArgs.args = <<SelfTest>>
    /\ casperArgs.args = <<Suites>>
    /\ casperSelfTest

\* C7: planning terminates normally (exit 0, no script chosen, checked or
\* loaded) exactly on the version row and on the help row.
TerminateRow ==
    \/ phantomArgs.options.version
    \/ /\ FirstPositional \notin {Test, SelfTest}
       /\ Len(phantomArgs.args) = 0 \/ phantomArgs.options.help

C8_ModuleNotFound ==
    (lastRequire.tier = "primitive" /\ lastRequire.threw) =>
        /\ lastRequire.outcome = "CasperError"
        /\ lastRequire.error = lastRequire.name
        /\ lastRequire.arg = lastRequire.name

C8_Witness ==
    /\ lastRequire.tier = "primitive"
    /\ lastRequire.threw
    /\ lastRequire.name \in ModuleNames

\* C9: patchRequire on a patched loader returns that loader and adds no
\* wrapper, so every patched loader wraps an unpatched one and shares its
\* cache, extensions and stubs.
C9_InstallIdempotent ==
    /\ \A i \in 1..Len(loaders) :
          loaders[i].patched =>
              LET inner == loaders[i].wraps
              IN  /\ inner \in 1..Len(loaders)
                  /\ ~loaders[inner].patched
                  /\ loaders[i].cache = loaders[inner].cache
                  /\ loaders[i].extensions = loaders[inner].extensions
                  /\ loaders[i].stubs = loaders[inner].stubs
    /\ lastPatch[1] # 0 =>
          /\ loaders[lastPatch[2]].patched
          /\ loaders[lastPatch[1]].patched => lastPatch[2] = lastPatch[1]

C9_Witness ==
    /\ lastPatch = <<globalRequire, globalRequire>>
    /\ loaders[globalRequire].patched
    /\ Len(loaders) = MaxLoaders

\* C10: every completed plan has an absolute base directory, and a bare file
\* name as anchor gives the absolute form of ".".
C10_AbsoluteBaseDir ==
    (PlannedCleanly /\ planOutcome = "completed") =>
        /\ IsAbsolute(casperScriptBaseDir)
        /\ (phantomArgs.args = <<Test, BareName>> \/ phantomArgs.args = <<BareName>>)
              => casperScriptBaseDir = Cwd

====
